---- MODULE Spec2Model ----
(***************************************************************************)
(* State machine of the App component of src/src/App.tsx: the roster of    *)
(* participants (names), the winner record (winners), the group set        *)
(* (groups), the draw countdown (setInterval timers created by startDraw)  *)
(* and the handlers bound to the buttons and inputs of the page.           *)
(*                                                                         *)
(* React state is read by a handler from the render it was bound in and    *)
(* every handler runs to completion on the single UI thread, so a handler  *)
(* is one atomic action.  Math.random is a nondeterministic choice.        *)
(* Display-only state (activeTab, inputText, currentCandidate) is left     *)
(* out: no handler reads it to decide what it does to the roster, the      *)
(* winner record or the group set.                                         *)
(***************************************************************************)
EXTENDS Integers, Sequences, FiniteSets, TLC

VARIABLES
    names,        \* useState<Person[]>([])            App.tsx:33
    winners,      \* useState<Person[]>([])            App.tsx:35
    isDrawing,    \* useState(false)                   App.tsx:36
    allowRepeat,  \* drawSettings.allowRepeat          App.tsx:38-41
    size,         \* groupSettings.size                App.tsx:42-44
    groups,       \* useState<Person[][]>([])          App.tsx:45
    timers,       \* live setInterval timers of startDraw, oldest first
    hung,         \* TRUE once a handler has killed the page
    alertMsg,     \* what the most recent handler showed with alert()
    lastCall,     \* history: what the most recent handler did ("other": a
                  \* handler whose outcome its effect on the state shows)
    sinceStart    \* history: winners prepended since the last countdown began

vars == <<names, winners, isDrawing, allowRepeat, size, groups, timers, hung,
          alertMsg, lastCall, sinceStart>>

(***************************************************************************)
(* Bounds of the model.                                                    *)
(***************************************************************************)
\* Math.random().toString(36).substr(2, 9) yields one of finitely many
\* strings; the model draws ids from 1..MaxId.
MaxId == 2
\* Longest roster the add handlers build in the roster and grouping
\* specifications.
MaxRoster == 3
\* Longest roster the add handlers build in the draw specifications and in
\* Spec.
MaxRosterDraw == 2
\* Most tokens one paste or one CSV file brings.
MaxBatch == 2
\* Draws are not started once the winner record is this long.
MaxWinners == 2
\* Largest value typed into the group size field.
MaxSize == 2
\* Most setInterval timers alive at once.
MaxTimers == 1
\* Ticks of one countdown: duration / interval = 2000 / 50 = 40 in the
\* source (App.tsx:155-157), scaled down here.
steps == 2

\* useState({ size: 4 })
initialSize == 4

Ids == 1..MaxId
\* The trimmed names that occur.
NameVals == {"A", "B"}
\* Raw tokens as split(/[\n,]+/) or a CSV cell delivers them.
RawTokens == {"", "A", " B"}

Person == [id : Ids, name : NameVals]

(***************************************************************************)
(* Helpers on sequences.                                                   *)
(***************************************************************************)
Range(s) == {s[i] : i \in DOMAIN s}

IdsOf(s) == {s[i].id : i \in DOMAIN s}

NamesOf(s) == {s[i].name : i \in DOMAIN s}

\* All sequences over S of length lo..hi.
SeqsOf(S, lo, hi) == UNION {[1..n -> S] : n \in lo..hi}

RECURSIVE Flat(_)
\* Array.prototype.flat() on rows of cells.
Flat(rows) ==
    IF rows = <<>> THEN <<>> ELSE Head(rows) \o Flat(Tail(rows))

\* String.prototype.trim() on the raw tokens of the model.
Trim(t) ==
    IF t = " B" THEN "B" ELSE t

\* .map(n => n.trim()).filter(n => n.length > 0)
Tokens(raw) ==
    SelectSeq([i \in DOMAIN raw |-> Trim(raw[i])], LAMBDA n : n # "")

\* .map(n => ({ id: Math.random()..., name: n })): one id per entry, each any
\* value the generator can produce.
WithIds(ns, ids) == [i \in DOMAIN ns |-> [id |-> ids[i], name |-> ns[i]]]

(***************************************************************************)
(* Values derived on every render.                                         *)
(***************************************************************************)
\* names.findIndex(n => n.name === nm): the first position holding nm.
FindIndex(ns, nm) ==
    CHOOSE i \in DOMAIN ns :
        /\ ns[i].name = nm
        /\ \A j \in DOMAIN ns : ns[j].name = nm => i <= j

\* duplicates with the comparison turned round: the first holders of a name.
duplicatesFirstOnly(ns) ==
    LET idx  == [i \in DOMAIN ns |-> i]
        kept == SelectSeq(idx, LAMBDA i : \A j \in DOMAIN ns : ns[j].name = ns[i].name => i <= j)
    IN  [k \in DOMAIN kept |-> ns[kept[k]].name]

\* const duplicates = names.filter((person, index) =>
\*     names.findIndex(n => n.name === person.name) !== index).map(p => p.name)
duplicates(ns) ==
    LET idx  == [i \in DOMAIN ns |-> i]
        kept == SelectSeq(idx, LAMBDA i : FindIndex(ns, ns[i].name) # i)
    IN  [k \in DOMAIN kept |-> ns[kept[k]].name]

\* const hasDuplicates = duplicates.length > 0
hasDuplicates(ns) == Len(duplicates(ns)) > 0

RECURSIVE FilterUnseen(_, _)
\* The filter callback of removeDuplicates, run over the rest of the list
\* with the Set `seen` built so far.
FilterUnseen(rest, seen) ==
    IF rest = <<>> THEN <<>>
    ELSE LET person    == Head(rest)
             duplicate == person.name \in seen
             tail      == FilterUnseen(Tail(rest), seen \cup {person.name})
         IN  IF duplicate THEN tail ELSE <<person>> \o tail

\* uniqueNames keeping the last holder of each name instead of the first.
uniqueNamesKeepLast(ns) ==
    LET idx  == [i \in DOMAIN ns |-> i]
        kept == SelectSeq(idx, LAMBDA i : \A j \in DOMAIN ns : ns[j].name = ns[i].name => j <= i)
    IN  [k \in DOMAIN kept |-> ns[kept[k]]]

\* const uniqueNames = names.filter(...) with seen = new Set()
uniqueNames(ns) == FilterUnseen(ns, {})

\* availableNames with winners matched by name instead of id.
availableNamesByName(ns, ws, repeat) ==
    IF repeat THEN ns
    ELSE SelectSeq(ns, LAMBDA n : ~(\E k \in DOMAIN ws : ws[k].name = n.name))

\* availableNames without the filter on past winners.
availableNamesUnfiltered(ns, ws, repeat) == ns

\* drawSettings.allowRepeat ? names : names.filter(n => !winners.find(w => w.id === n.id))
availableNames(ns, ws, repeat) ==
    IF repeat THEN ns
    ELSE SelectSeq(ns, LAMBDA n : ~(\E k \in DOMAIN ws : ws[k].id = n.id))

\* The orders [...names].sort(() => Math.random() - 0.5) can leave: the
\* comparator is inconsistent, so the order is whatever the engine's sort
\* makes of it, and the elements are those of names.
Shuffles(ns) ==
    LET n == Len(ns)
        P == {p \in [1..n -> 1..n] : \A i, j \in 1..n : p[i] = p[j] => i = j}
    IN  {[i \in 1..n |-> ns[p[i]]] : p \in P}

\* slice taking the element at `end` as well.
SliceInclusive(s, start, end) ==
    LET len    == Len(s)
        Rel(a) == IF a < 0 THEN (IF len + a < 0 THEN 0 ELSE len + a)
                  ELSE (IF a < len THEN a ELSE len)
        from   == Rel(start)
        to     == Rel(end + 1)
    IN  IF to <= from THEN <<>> ELSE [k \in 1..(to - from) |-> s[from + k]]

\* Array.prototype.slice(start, end) with 0-based arguments: a negative
\* argument counts from the end, and both are clamped to 0..length.
Slice(s, start, end) ==
    LET len    == Len(s)
        Rel(a) == IF a < 0 THEN (IF len + a < 0 THEN 0 ELSE len + a)
                  ELSE (IF a < len THEN a ELSE len)
        from   == Rel(start)
        to     == Rel(end)
    IN  IF to <= from THEN <<>> ELSE [k \in 1..(to - from) |-> s[from + k]]

RECURSIVE ChunkLoop(_, _, _, _, _)
\* for (let i = 0; i < shuffled.length; i += size) result.push(shuffled.slice(i, i + size))
\* run for at most `fuel` iterations.  returned says whether the loop left
\* through its condition.  With size < 0 the index only falls, the condition
\* stays true and the loop never leaves through it.
ChunkLoop(shuffled, sz, i, result, fuel) ==
    IF ~(i < Len(shuffled)) THEN [returned |-> TRUE, result |-> result]
    ELSE IF fuel = 0 THEN [returned |-> FALSE, result |-> result]
    ELSE ChunkLoop(shuffled, sz, i + sz,
                   Append(result, Slice(shuffled, i, i + sz)),
                   fuel - 1)

\* The body of generateGroups after the shuffle.  A loop with size >= 1 ends
\* within shuffled.length iterations, so that much fuel decides it.
Chunks(shuffled, sz) == ChunkLoop(shuffled, sz, 0, <<>>, Len(shuffled) + 1)

\* clearInterval forgotten: the timer stays live.
ClearIntervalMissing(ts, i) == ts

\* clearInterval(timer): the i-th live timer fires no more.
ClearInterval(ts, i) == [k \in 1..(Len(ts) - 1) |-> IF k < i THEN ts[k] ELSE ts[k + 1]]

(***************************************************************************)
(* Initial state: the useState initial values, no timer.                   *)
(***************************************************************************)
Init ==
    /\ names = <<>>
    /\ winners = <<>>
    /\ isDrawing = FALSE
    /\ allowRepeat = FALSE
    /\ size = initialSize
    /\ groups = <<>>
    /\ timers = <<>>
    /\ hung = FALSE
    /\ alertMsg = "none"
    /\ lastCall = "none"
    /\ sinceStart = -1

\* What a handler leaves alone when it touches neither the draw nor the groups.
DrawUnchanged == UNCHANGED <<winners, isDrawing, allowRepeat, timers, sinceStart>>
GroupUnchanged == UNCHANGED <<size, groups, hung>>

(***************************************************************************)
(* Roster handlers.  cap bounds the roster the add handlers build.         *)
(***************************************************************************)
\* handleAddNames: raw is inputText.split(/[\n,]+/), which has at least one
\* element; ids are the Math.random results, one per kept token.
handleAddNames(cap) ==
    /\ ~hung
    /\ \E raw \in SeqsOf(RawTokens, 1, MaxBatch) :
        LET toks == Tokens(raw) IN
        /\ Len(names) + Len(toks) <= cap
        /\ \E ids \in [DOMAIN toks -> Ids] :
               names' = names \o WithIds(toks, ids)
        /\ alertMsg' = "none"
        /\ lastCall' = "other"
        /\ DrawUnchanged
        /\ GroupUnchanged

RECURSIVE RowsOf(_)
\* The ways to lay the cells out in rows of one or more cells.
RowsOf(cells) ==
    IF cells = <<>> THEN {<<>>}
    ELSE UNION {{<<SubSeq(cells, 1, k)>> \o rest :
                    rest \in RowsOf(SubSeq(cells, k + 1, Len(cells)))} :
                k \in 1..Len(cells)}

\* The parsed files of the model (results.data): rows of one or more cells,
\* at most MaxBatch cells in all.
ParsedFiles == UNION {RowsOf(cells) : cells \in SeqsOf(RawTokens, 0, MaxBatch)}

\* handleFileUpload: the complete callback of Papa.parse on results.data.
handleFileUpload(cap) ==
    /\ ~hung
    /\ \E rows \in ParsedFiles :
        LET toks == Tokens(Flat(rows)) IN
        /\ Len(names) + Len(toks) <= cap
        /\ \E ids \in [DOMAIN toks -> Ids] :
               names' = names \o WithIds(toks, ids)
        /\ alertMsg' = "none"
        /\ lastCall' = "other"
        /\ DrawUnchanged
        /\ GroupUnchanged

\* The literal list of loadMockData: 20 pairwise distinct names in the
\* source, cut down to the names of the model.
mockNames == <<"A", "B">>

\* loadMockData: replaces the roster by the mock list under fresh random ids.
loadMockData ==
    /\ ~hung
    /\ \E ids \in [DOMAIN mockNames -> Ids] :
           names' = WithIds(mockNames, ids)
    /\ alertMsg' = "none"
    /\ lastCall' = "other"
    /\ DrawUnchanged
    /\ GroupUnchanged

\* removeName(id)
removeName(id) ==
    /\ ~hung
    /\ names' = SelectSeq(names, LAMBDA n : n.id # id)
    /\ alertMsg' = "none"
    /\ lastCall' = "other"
    /\ DrawUnchanged
    /\ GroupUnchanged

\* removeDuplicates
removeDuplicates ==
    /\ ~hung
    /\ names' = uniqueNames(names)
    /\ alertMsg' = "none"
    /\ lastCall' = "removeDuplicates"
    /\ DrawUnchanged
    /\ GroupUnchanged

\* clearAll without setGroups([]).
clearAllKeepsGroups(ok) ==
    /\ ~hung
    /\ IF ok
       THEN /\ names' = <<>>
            /\ winners' = <<>>
            /\ groups' = groups
       ELSE UNCHANGED <<names, winners, groups>>
    /\ alertMsg' = "none"
    /\ lastCall' = IF ok THEN "clearAll" ELSE "clearAll:declined"
    /\ UNCHANGED <<isDrawing, allowRepeat, timers, sinceStart, size, hung>>

\* clearAll: ok is what confirm() returns.
clearAll(ok) ==
    /\ ~hung
    /\ IF ok
       THEN /\ names' = <<>>
            /\ winners' = <<>>
            /\ groups' = <<>>
       ELSE UNCHANGED <<names, winners, groups>>
    /\ alertMsg' = "none"
    /\ lastCall' = IF ok THEN "clearAll" ELSE "clearAll:declined"
    /\ UNCHANGED <<isDrawing, allowRepeat, timers, sinceStart, size, hung>>

(***************************************************************************)
(* The lucky draw.                                                         *)
(***************************************************************************)
\* A timer of setInterval with what its callback closes over: availableNames
\* and counter.  noRepeat is history: allowRepeat was off when it was set.
NewTimer(avail, repeat) == [avail |-> avail, counter |-> 0, noRepeat |-> ~repeat]

\* startDraw.  The two early returns leave every state alone; the second
\* one shows the alert.  Otherwise the countdown begins.
startDraw ==
    LET avail == availableNames(names, winners, allowRepeat) IN
    /\ ~hung
    /\ IF Len(names) = 0
       THEN /\ alertMsg' = "none"
            /\ lastCall' = "startDraw:empty"
            /\ UNCHANGED <<names, winners, isDrawing, allowRepeat, timers,
                           sinceStart, size, groups, hung>>
       ELSE IF Len(avail) = 0
       THEN /\ alertMsg' = "NoCandidates"
            /\ lastCall' = "startDraw:nopool"
            /\ UNCHANGED <<names, winners, isDrawing, allowRepeat, timers,
                           sinceStart, size, groups, hung>>
       ELSE /\ Len(timers) < MaxTimers
            /\ Len(winners) < MaxWinners
            /\ isDrawing' = TRUE
            /\ timers' = Append(timers, NewTimer(avail, allowRepeat))
            /\ sinceStart' = 0
            /\ alertMsg' = "none"
            /\ lastCall' = "startDraw:started"
            /\ UNCHANGED <<names, winners, allowRepeat, size, groups, hung>>

\* The setInterval callback of the i-th live timer.  The display sample
\* (setCurrentCandidate) is not state of the model.
timerTick(i) ==
    LET t       == timers[i]
        counter == t.counter + 1
    IN  /\ ~hung
        /\ IF counter >= steps
           THEN \E finalWinner \in Range(t.avail) :
                   /\ timers' = ClearInterval([timers EXCEPT ![i].counter = counter], i)
                   /\ winners' = <<finalWinner>> \o winners
                   /\ isDrawing' = FALSE
                   /\ sinceStart' = sinceStart + 1
                   /\ alertMsg' = "none"
                   /\ lastCall' = IF t.noRepeat THEN "finalize:norepeat" ELSE "finalize"
                   /\ UNCHANGED <<names, allowRepeat, size, groups, hung>>
           ELSE /\ timers' = [timers EXCEPT ![i].counter = counter]
                /\ alertMsg' = "none"
                /\ lastCall' = "other"
                /\ UNCHANGED <<names, winners, isDrawing, allowRepeat, sinceStart,
                               size, groups, hung>>

\* onChange of the allowRepeat checkbox: e.target.checked is the new value.
setAllowRepeat ==
    /\ ~hung
    /\ allowRepeat' = ~allowRepeat
    /\ alertMsg' = "none"
    /\ lastCall' = "other"
    /\ UNCHANGED <<names, winners, isDrawing, timers, sinceStart>>
    /\ GroupUnchanged

\* onClick of the reset button of the winner list: setWinners([])
resetWinners ==
    /\ ~hung
    /\ winners' = <<>>
    /\ alertMsg' = "none"
    /\ lastCall' = "other"
    /\ UNCHANGED <<names, isDrawing, allowRepeat, timers, sinceStart>>
    /\ GroupUnchanged

(***************************************************************************)
(* Grouping.                                                               *)
(***************************************************************************)
\* onChange of the size field: parseInt(e.target.value) || 1.  parsed is
\* the integer parseInt returns; NaN is falsy like 0 and gives 1 too.
setGroupSize(parsed) ==
    /\ ~hung
    /\ size' = IF parsed = 0 THEN 1 ELSE parsed
    /\ alertMsg' = "none"
    /\ lastCall' = "other"
    /\ UNCHANGED <<names, groups, hung>>
    /\ DrawUnchanged

\* generateGroups.  A loop that never leaves through its condition pushes
\* onto result until the engine gives up: the page dies for lack of memory
\* (hung), or push throws once the array is full and the handler is
\* abandoned; setGroups is reached in neither case.
generateGroups ==
    /\ ~hung
    /\ IF Len(names) = 0
       THEN /\ alertMsg' = "none"
            /\ lastCall' = "generateGroups:empty"
            /\ UNCHANGED <<names, size, groups, hung>>
            /\ DrawUnchanged
       ELSE \E shuffled \in Shuffles(names) :
               LET loop == Chunks(shuffled, size) IN
               /\ IF loop.returned
                  THEN /\ groups' = loop.result
                       /\ hung' = FALSE
                       /\ lastCall' = "generateGroups"
                  ELSE \E dies \in BOOLEAN :
                       /\ groups' = groups
                       /\ hung' = dies
                       /\ lastCall' = IF dies THEN "generateGroups:hung"
                                      ELSE "generateGroups:threw"
               /\ alertMsg' = "none"
               /\ UNCHANGED <<names, size>>
               /\ DrawUnchanged

(***************************************************************************)
(* What the render offers: a handler bound to a control runs only while    *)
(* the control is rendered and enabled.                                    *)
(***************************************************************************)
\* disabled={isDrawing || names.length === 0} on the draw button
drawButtonEnabled == ~isDrawing /\ Len(names) # 0

\* disabled={names.length === 0} on the grouping button
groupButtonEnabled == Len(names) # 0

\* {names.length > 0 && <button onClick={clearAll}>}
clearAllShown == Len(names) > 0

\* {hasDuplicates && <button onClick={removeDuplicates}>}
removeDuplicatesShown == hasDuplicates(names)

\* {winners.length > 0 && ... <button onClick={() => setWinners([])}>}
resetWinnersShown == Len(winners) > 0

\* names.map(person => ... onClick={() => removeName(person.id)})
removeButtons == IdsOf(names)

ClickAdd(cap) == handleAddNames(cap)
Upload(cap) == handleFileUpload(cap)
ClickMock == loadMockData
ClickRemove == \E id \in removeButtons : removeName(id)
ClickRemoveDuplicates == removeDuplicatesShown /\ removeDuplicates
ClickClearAll == clearAllShown /\ \E ok \in BOOLEAN : clearAll(ok)
ClickDraw == drawButtonEnabled /\ startDraw
Tick == \E i \in DOMAIN timers : timerTick(i)
ToggleRepeat == setAllowRepeat
ClickResetWinners == resetWinnersShown /\ resetWinners
TypeSize == \E parsed \in -1..MaxSize : setGroupSize(parsed)
ClickGroup == groupButtonEnabled /\ generateGroups

(***************************************************************************)
(* Specifications.  The page with every control is too large to explore    *)
(* with rosters of three, so each specification is the page restricted to  *)
(* the controls of one concern; no handler of one concern reads the state  *)
(* another one writes (the draw never reads groups or size, the grouping   *)
(* never reads winners, allowRepeat or the timers).                        *)
(***************************************************************************)
\* The page with the roster, draw and grouping buttons together.
Next ==
    \/ ClickAdd(MaxRosterDraw)
    \/ ClickRemove
    \/ ClickClearAll
    \/ ClickDraw
    \/ Tick
    \/ ClickGroup

Spec == Init /\ [][Next]_vars

\* The roster controls alone.
NextRoster ==
    \/ ClickAdd(MaxRoster)
    \/ Upload(MaxRoster)
    \/ ClickMock
    \/ ClickRemove
    \/ ClickRemoveDuplicates
    \/ ClickClearAll

SpecRoster == Init /\ [][NextRoster]_vars

\* The roster and the draw tab.
NextDraw ==
    \/ ClickAdd(MaxRosterDraw)
    \/ Upload(MaxRosterDraw)
    \/ ClickMock
    \/ ClickRemove
    \/ ClickRemoveDuplicates
    \/ ClickClearAll
    \/ ClickDraw
    \/ Tick
    \/ ToggleRepeat
    \/ ClickResetWinners

SpecDraw == Init /\ [][NextDraw]_vars

\* The roster and the grouping tab.
NextGroup ==
    \/ ClickAdd(MaxRoster)
    \/ Upload(MaxRoster)
    \/ ClickMock
    \/ ClickRemove
    \/ ClickRemoveDuplicates
    \/ ClickClearAll
    \/ TypeSize
    \/ ClickGroup

SpecGroup == Init /\ [][NextGroup]_vars

\* The draw handlers called as functions, whatever the render offers.
CallRemove == \E id \in Ids : removeName(id)
CallClearAll == \E ok \in BOOLEAN : clearAll(ok)

NextDrawCalls ==
    \/ handleAddNames(MaxRosterDraw)
    \/ CallRemove
    \/ CallClearAll
    \/ startDraw
    \/ Tick
    \/ setAllowRepeat
    \/ resetWinners

SpecDrawCalls == Init /\ [][NextDrawCalls]_vars

\* The grouping handlers called as functions, whatever the render offers.
NextGroupCalls ==
    \/ handleAddNames(MaxRoster)
    \/ CallRemove
    \/ CallClearAll
    \/ TypeSize
    \/ generateGroups

SpecGroupCalls == Init /\ [][NextGroupCalls]_vars

\* The roster with the remove-duplicates badge, the draw and the grouping.
NextDedup ==
    \/ ClickAdd(MaxRoster)
    \/ ClickRemoveDuplicates
    \/ ClickDraw
    \/ Tick
    \/ ClickGroup

SpecDedup == Init /\ [][NextDedup]_vars

(***************************************************************************)
(* Claims.                                                                 *)
(***************************************************************************)
\* C1: a draw started while allowRepeat is off commits a winner whose id
\* does not occur in the winner record as it is just before the prepend,
\* whatever ran during the countdown.  The commit prepends, so the record
\* before it is the tail of the record after it.
C1_FreshWinner ==
    lastCall = "finalize:norepeat" => Head(winners).id \notin IdsOf(Tail(winners))

\* C1 witness: such a draw committed onto a non-empty winner record, after
\* the roster lost the winner during the countdown.
C1_Witness ==
    /\ lastCall = "finalize:norepeat"
    /\ Len(winners) = 2
    /\ Head(winners).id \notin IdsOf(names)

\* The eligible pool of a draw is empty: the roster is empty, or allowRepeat
\* is off and every id of the roster occurs in the winner record.
NoPool ==
    \/ Len(names) = 0
    \/ ~allowRepeat /\ IdsOf(names) \subseteq IdsOf(winners)

\* The step is a call of startDraw (lastCall' names its outcome).
StartDrawCalled ==
    lastCall' \in {"startDraw:empty", "startDraw:nopool", "startDraw:started"}

CountId(s, id) == Cardinality({i \in DOMAIN s : s[i].id = id})

\* The step is a call of generateGroups (lastCall' names its outcome).
GenerateGroupsCalled ==
    lastCall' \in {"generateGroups", "generateGroups:empty",
                   "generateGroups:hung", "generateGroups:threw"}

\* C3: generateGroups on a non-empty roster with size >= 1 sets groups so
\* that the groups in order are a permutation of the roster (every id as
\* often as in the roster), every group but the last has size members and
\* the last has 1..size.  The handler leaves names and size alone, so they
\* are the roster and the size it ran on.
C3_GroupsPartitionRoster ==
    (lastCall \in {"generateGroups", "generateGroups:hung", "generateGroups:threw"}
        /\ size >= 1) =>
        LET flat == Flat(groups)
            n    == Len(groups)
        IN  /\ lastCall = "generateGroups"
            /\ Len(flat) = Len(names)
            /\ \A id \in Ids : CountId(flat, id) = CountId(names, id)
            /\ Range(flat) = Range(names)
            /\ n >= 1
            /\ \A g \in 1..(n - 1) : Len(groups[g]) = size
            /\ Len(groups[n]) \in 1..size

\* C3 witness: three participants in groups of two, the last group short and
\* the order not that of the roster.
C3_Witness ==
    /\ lastCall = "generateGroups"
    /\ Len(names) = 3
    /\ size = 2
    /\ Len(groups) = 2
    /\ Len(groups[2]) = 1
    /\ Flat(groups) # names

\* C4 as stated: generateGroups called with size <= 0 ends by signalling
\* InvalidSize and leaves groups unchanged.
C4_InvalidSizeSignalled ==
    [][ GenerateGroupsCalled /\ size <= 0 =>
            /\ alertMsg' = "InvalidSize"
            /\ ~hung'
            /\ groups' = groups ]_vars

\* C5: a countdown finalizes at most once.  No step takes the number of
\* winners prepended since the last start above one, a countdown starts only
\* when the one before it has prepended exactly one winner, and once
\* isDrawing is off no timer is left to fire.
C5_FinalizeOnce ==
    [][ /\ sinceStart' <= 1
        /\ (Len(timers') > Len(timers) /\ sinceStart # -1) => sinceStart = 1
        /\ ~isDrawing' => timers' = <<>> ]_vars

\* C5 witness: a second countdown has finalized, each having prepended one
\* winner.
C5_Witness ==
    /\ lastCall \in {"finalize", "finalize:norepeat"}
    /\ sinceStart = 1
    /\ Len(winners) = 2
    /\ timers = <<>>

\* C6 as stated: whenever clearAll has been invoked, the roster, the winner
\* record and the group set are empty on its return.
C6_ClearAllAlwaysEmpties ==
    lastCall \in {"clearAll", "clearAll:declined"} =>
        names = <<>> /\ winners = <<>> /\ groups = <<>>

\* C6 amended: clearAll empties the roster, the winner record and the group
\* set when the operator confirms the prompt, in whatever state it is
\* invoked, and changes none of them when the operator declines.
C6_ClearAllEmptiesOnConfirm ==
    [][ /\ lastCall' = "clearAll" =>
                names' = <<>> /\ winners' = <<>> /\ groups' = <<>>
        /\ lastCall' = "clearAll:declined" =>
                UNCHANGED <<names, winners, groups>> ]_vars

\* C6 witness: clearAll has been confirmed while a countdown is running.
C6_Witness ==
    /\ lastCall = "clearAll"
    /\ isDrawing
    /\ timers # <<>>
    /\ names = <<>> /\ winners = <<>> /\ groups = <<>>

\* C7 as stated: every step that changes the roster leaves the winner record
\* and the group set empty, so neither holds a participant the roster lacks.
C7_RosterChangeResetsViews ==
    [][ /\ names' # names => winners' = <<>> /\ groups' = <<>>
        /\ Range(winners') \subseteq Range(names')
        /\ Range(Flat(groups')) \subseteq Range(names') ]_vars

\* C8 as stated: after generateGroups has been invoked on an empty roster the
\* group set is empty.  (The handler leaves names alone.)
C8_EmptyRosterNoGroups ==
    (lastCall \in {"generateGroups", "generateGroups:empty",
                   "generateGroups:hung", "generateGroups:threw"}
        /\ Len(names) = 0) => groups = <<>>

\* C9 as stated, its first half: no two participants of the roster share an
\* id.
C9_UniqueIds ==
    \A i, j \in DOMAIN names : names[i].id = names[j].id => i = j

\* The names that two or more participants carry.
DuplicatedNames(ns) ==
    {nm \in NamesOf(ns) : Cardinality({i \in DOMAIN ns : ns[i].name = nm}) >= 2}

\* How many entries of the sequence of names d are nm.
CountName(d, nm) == Cardinality({i \in DOMAIN d : d[i] = nm})

PairwiseDistinctNames(ns) ==
    \A i, j \in DOMAIN ns : ns[i].name = ns[j].name => i = j

\* C10 as stated: duplicates is the set of names carried by two or more
\* participants, each listed once, so its length is the number of distinct
\* duplicated names; it is empty iff the names are pairwise distinct.
C10_DuplicatesIsSet ==
    LET d == duplicates(names) IN
    /\ Range(d) = DuplicatedNames(names)
    /\ \A nm \in Range(d) : CountName(d, nm) = 1
    /\ Len(d) = Cardinality(DuplicatedNames(names))
    /\ (Len(d) = 0 <=> PairwiseDistinctNames(names))

\* C10 amended: duplicates lists a name once for every participant that
\* follows an earlier participant of that name, so the names in it are the
\* names carried by two or more participants, a name carried k times is
\* listed k - 1 times, and its length is the number of participants less the
\* number of distinct names; it is empty iff the names are pairwise distinct.
C10_DuplicatesListsSurplus ==
    LET d == duplicates(names) IN
    /\ Range(d) = DuplicatedNames(names)
    /\ \A nm \in NamesOf(names) :
           CountName(d, nm) = Cardinality({i \in DOMAIN names : names[i].name = nm}) - 1
    /\ Len(d) = Len(names) - Cardinality(NamesOf(names))
    /\ (Len(d) = 0 <=> PairwiseDistinctNames(names))
    /\ (hasDuplicates(names) <=> ~PairwiseDistinctNames(names))

\* C10 witness: three participants of one name, listed twice in duplicates.
C10_Witness ==
    /\ Len(names) = 3
    /\ Cardinality(NamesOf(names)) = 1
    /\ Len(duplicates(names)) = 2

\* The participants of ns that no earlier participant shares the name of, in
\* the order of ns.
FirstOfEachName(ns) ==
    LET idx  == [i \in DOMAIN ns |-> i]
        kept == SelectSeq(idx, LAMBDA i : \A j \in 1..(i - 1) : ns[j].name # ns[i].name)
    IN  [k \in DOMAIN kept |-> ns[kept[k]]]

\* C11: removeDuplicates leaves the roster's subsequence of the participants
\* that have no earlier participant of the same name, and changes neither
\* the winner record nor the group set.
C11_KeepsFirstOfEachName ==
    [][lastCall' = "removeDuplicates" =>
          /\ names' = FirstOfEachName(names)
          /\ winners' = winners
          /\ groups' = groups]_vars

\* removeDuplicates has run on a roster of three with a winner recorded and
\* groups generated, and dropped one participant.
C11_Witness ==
    /\ lastCall = "removeDuplicates"
    /\ Len(names) = 2
    /\ names[1].name # names[2].name
    /\ winners # <<>>
    /\ groups # <<>>
    /\ Len(groups[1]) = 3

\* C13: the winner a countdown commits is a participant of the roster at
\* the moment it is prepended to the winner record, whatever roster
\* handlers ran between startDraw and the committing tick.
C13_WinnerInRoster ==
    lastCall \in {"finalize", "finalize:norepeat"} =>
        \E i \in DOMAIN names : names[i] = winners[1]

====
